---- MODULE Spec2Model ----
(***************************************************************************)
(* The reconnecting WebSocket hook (useWebSocket) of quiz-party, together  *)
(* with the transport and the React effect lifecycle that drive it.        *)
(*                                                                         *)
(* One hook instance is modelled.  Its refs and state fields are the       *)
(* variables; every handler the hook installs (onopen, onmessage, onclose, *)
(* onerror), the effect body and cleanup, the reconnect timer and send()   *)
(* are operators over a record of the hook state, composed into one action *)
(* per event of the single-threaded task queue.                            *)
(*                                                                         *)
(* The module also holds the shared package's useFetchData hook with its   *)
(* module-level cache and in-flight maps, the player session functions     *)
(* (secure session and playerAPI helpers over sessionStorage), the message *)
(* dispatcher, the error branch of apiFetch, the host screen's player list *)
(* and the student Play page with its countdown effect.  Each part has its *)
(* own variables and its own specification; the other parts stay idle in   *)
(* it.                                                                     *)
(***************************************************************************)
EXTENDS Integers, Sequences, FiniteSets, TLC

\* ---------------------------------------------------------------- constants
INITIAL_RECONNECT_DELAY_MS == 1000
MAX_RECONNECT_DELAY_MS == 15000
MAX_RECONNECT_ATTEMPTS == 10

\* ------------------------------------------------------------------- bounds
MaxRenders == 1     \* re-renders that change a dependency of connect
MaxSends == 2       \* calls of send()
MaxInbound == 1     \* inbound frames delivered
MaxErrors == 1      \* error events delivered

\* ------------------------------------------------------------------ helpers
Undef == "undefined"

Truthy(x) == x # Undef /\ x # ""

Min(a, b) == IF a < b THEN a ELSE b

RECURSIVE Pow2(_)
Pow2(n) == IF n = 0 THEN 1 ELSE 2 * Pow2(n - 1)

\* The options the hook is called with (UseWebSocketOptions): a player with
\* id and token, a player whose token is not given, a host with its token, a
\* host that is not enabled, and a caller that has no session code.
Options(code, role, token, playerId, playerToken, enabled) ==
  [sessionCode |-> code, role |-> role, token |-> token,
   playerId |-> playerId, playerToken |-> playerToken, enabled |-> enabled]

OptionSet ==
  { Options("ABC123", "player", Undef, "p1", "t1", TRUE),
    Options("ABC123", "player", Undef, "p1", Undef, TRUE),
    Options("XYZ789", "host", "tok", Undef, Undef, TRUE),
    Options("XYZ789", "host", Undef, Undef, Undef, FALSE),
    Options("", "player", Undef, Undef, Undef, TRUE) }

\* JSON.stringify of a flat object: the set of its key/value pairs, the keys
\* whose value is undefined left out.
Stringify(obj) == { <<k, obj[k]>> : k \in { f \in DOMAIN obj : obj[f] # Undef } }

\* The data passed to the n-th call of send().
OutboundIds == <<"q1", "q2", "q3", "q4">>
OutboundCalls == 1..Len(OutboundIds)
OutboundData(n) == [type |-> "submit_answer", question_id |-> OutboundIds[n]]

PongData == [type |-> "pong"]

\* The init object built by onopen.
InitMsg(p) ==
  IF p.role = "host" /\ Truthy(p.token)
    THEN [type |-> "init", role |-> p.role, token |-> p.token]
    ELSE IF p.role = "player" /\ Truthy(p.playerId)
      THEN [type |-> "init", role |-> p.role, player_id |-> p.playerId,
            player_token |-> p.playerToken]
      ELSE [type |-> "init", role |-> p.role]

\* Inbound frame texts and what JSON.parse makes of them.
InboundTexts == { "{\"type\":\"ping\"}", "{\"type\":\"question\"}",
                  "not json", "[1,2]", "{\"x\":1}", "null" }

JsonParse(text) ==
  CASE text = "{\"type\":\"ping\"}"     -> [throws |-> FALSE, isObject |-> TRUE, isNull |-> FALSE, type |-> "ping"]
    [] text = "{\"type\":\"question\"}" -> [throws |-> FALSE, isObject |-> TRUE, isNull |-> FALSE, type |-> "question"]
    [] text = "[1,2]"                   -> [throws |-> FALSE, isObject |-> TRUE, isNull |-> FALSE, type |-> Undef]
    [] text = "{\"x\":1}"               -> [throws |-> FALSE, isObject |-> TRUE, isNull |-> FALSE, type |-> Undef]
    [] text = "null"                    -> [throws |-> FALSE, isObject |-> TRUE, isNull |-> TRUE, type |-> Undef]
    [] OTHER                            -> [throws |-> TRUE, isObject |-> FALSE, isNull |-> FALSE, type |-> Undef]

\* ---------------------------------------------------------------- variables
VARIABLES
  options,            \* the options of the current render
  mounted,            \* the component using the hook is mounted
  renders,            \* dependency-changing re-renders so far
  closeMode,          \* how the transport delivers the close event of close()
  wsRef,              \* wsRef.current: 0 is null, else a socket id
  isConnected,
  connectionStatus,
  reconnectAttempts,  \* reconnectAttempts.current
  reconnectTimer,     \* reconnectTimer.current: 0 is null, else a timer id
  messageQueue,       \* messageQueue.current: data objects passed to send()
  sockets,            \* the WebSockets not yet closed for good, by id
  timers,             \* the pending setTimeout(connect, delay) calls, by id
  delayLog,           \* delays scheduled since the last open, in order
  writeCount,         \* writeCount[n]: frames written for the n-th send()
  onMessageCalls,     \* arguments of the calls of onMessage, in order
  onErrorCalls,       \* number of calls of onError
  onExhaustedCalls,   \* number of calls of onReconnectExhausted
  sends,              \* number of send() calls
  inbound             \* number of inbound frames delivered

\* useFetchData: the consumers of the hook and the two module-level maps.
VARIABLES
  fetchOptions,       \* fetchOptions[c]: the options consumer c passes
  consumer,           \* consumer[c]: phase, and the data, loading and error
                      \* last given to the state setters
  inFlightRequests,   \* cache key -> the promise registered for it
  resultCache,        \* cache key -> [data, timestamp]
  promises,           \* the pending promises returned by fetchFn, by id
  now,                \* Date.now()
  refetchCalls,       \* number of refetch() calls
  fetchCalls          \* number of fetchFn() invocations

\* The player's session: the secure session manager and playerAPI's helpers.
VARIABLES
  memorySession,      \* {} is null, else the one SecureSessionData in memory
  sessionStorage,     \* window.sessionStorage: key -> stored text
  sessionReturn,      \* what the last getSecureSession() returned: {} is null
  sessionStoredAt,    \* {t}: the time of the last storeSecureSession
  sessionTouchedAt    \* {t}: the time of the last storeSecureSession or
                      \* refreshSessionExpiry of the session in memory

\* createMessageDispatcher: one dispatcher and what it did.
VARIABLES
  handlers,           \* the handler map the dispatcher was created with
  dispatchLog         \* per dispatch call: the message, the functions it
                      \* called and what it returned

\* The host screen's player list, the Play page's game state with its
\* countdown, and the calls of apiFetch.
VARIABLES
  players,            \* HostScreen: the players state, in list order
  hostHandled,        \* messages handled by HostScreen.handleMessage
  playVariant,        \* which Play page runs: "Play.tsx" or "part_012"
  playState,          \* Play: phase, currentQuestion, selectedAnswer,
                      \* timeRemaining ({} is null)
  lastQuestionIdRef,  \* Play: lastQuestionIdRef.current
  timerRef,           \* Play: the interval of timerRef.current is running
  playHandled,        \* messages handled by Play.handleMessage
  apiLog              \* the non-2xx responses given to apiFetch and the
                      \* message of the error each call rejected with

wsVars == << options, mounted, renders, closeMode, wsRef, isConnected,
             connectionStatus, reconnectAttempts, reconnectTimer, messageQueue,
             sockets, timers, delayLog, writeCount, onMessageCalls,
             onErrorCalls, onExhaustedCalls, sends, inbound >>

fetchVars == << fetchOptions, consumer, inFlightRequests, resultCache,
                promises, now, refetchCalls, fetchCalls >>

sessionVars == << memorySession, sessionStorage, sessionReturn,
                  sessionStoredAt, sessionTouchedAt >>

dispatchVars == << handlers, dispatchLog >>

\* What the pages use next to the WebSocket hook.
\* The pages: the host screen, the player's Play page, and the REST client.
hostVars == << players, hostHandled >>

playVars == << playVariant, playState, lastQuestionIdRef, timerRef,
               playHandled >>

apiVars == << apiLog >>

pageVars == << hostVars, playVars, apiVars >>

appVars == << fetchVars, sessionVars, dispatchVars, pageVars >>

vars == << wsVars, appVars >>

\* The effect run that is current: the first one, plus one per re-render.
EffectRun == renders + 1

\* The hook state the handlers read and write.
HookState ==
  [wsRef |-> wsRef, isConnected |-> isConnected,
   connectionStatus |-> connectionStatus,
   reconnectAttempts |-> reconnectAttempts, reconnectTimer |-> reconnectTimer,
   messageQueue |-> messageQueue, sockets |-> sockets, timers |-> timers,
   delayLog |-> delayLog, writeCount |-> writeCount,
   onMessageCalls |-> onMessageCalls, onErrorCalls |-> onErrorCalls,
   onExhaustedCalls |-> onExhaustedCalls]

Commit(s) ==
  /\ wsRef' = s.wsRef
  /\ isConnected' = s.isConnected
  /\ connectionStatus' = s.connectionStatus
  /\ reconnectAttempts' = s.reconnectAttempts
  /\ reconnectTimer' = s.reconnectTimer
  /\ messageQueue' = s.messageQueue
  /\ sockets' = s.sockets
  /\ timers' = s.timers
  /\ delayLog' = s.delayLog
  /\ writeCount' = s.writeCount
  /\ onMessageCalls' = s.onMessageCalls
  /\ onErrorCalls' = s.onErrorCalls
  /\ onExhaustedCalls' = s.onExhaustedCalls

\* ----------------------------------------------------------------- handlers
\* Ids of sockets and timers: the least id not in use.  A socket leaves
\* `sockets` with its close event and a timer leaves `timers` when it fires or
\* is cleared; nothing refers to a socket after its close event (onclose nulls
\* wsRef), and reconnectTimer is set to StaleTimer when its timer leaves.
FreeId(f) == CHOOSE i \in 1..(Cardinality(DOMAIN f) + 1) : i \notin DOMAIN f

Put(f, i, v) == [j \in DOMAIN f \cup {i} |-> IF j = i THEN v ELSE f[j]]

Drop(f, i) == [j \in DOMAIN f \ {i} |-> f[j]]

Empty == [j \in {} |-> 0]

\* reconnectTimer.current holding the id of a timer that fired or was cleared.
StaleTimer == -1

\* new WebSocket(url) inside connect: readyState CONNECTING, handlers closed
\* over the options p of the connect that made it (effect run g).
NewSocket(p, g) ==
  [readyState |-> "CONNECTING", p |-> p, gen |-> g, tornDown |-> FALSE,
   written |-> <<>>]

\* The send() call whose data object has the given text, 0 if there is none.
CallOf(text) ==
  IF \E n \in OutboundCalls : Stringify(OutboundData(n)) = text
    THEN CHOOSE n \in OutboundCalls : Stringify(OutboundData(n)) = text
    ELSE 0

\* ws.send(text) on the open socket t.
WsSend(s, t, text) ==
  [s EXCEPT !.sockets[t].written = Append(@, text),
            !.writeCount = IF CallOf(text) # 0
                             THEN [@ EXCEPT ![CallOf(text)] = @ + 1] ELSE @]

\* connect, as created by useCallback for options p in effect run g.
Connect(s, p, g) ==
  IF ~p.enabled \/ ~Truthy(p.sessionCode)
    THEN s
    ELSE LET id == FreeId(s.sockets) IN
         [s EXCEPT
            !.connectionStatus =
               IF s.reconnectAttempts > 0 THEN "reconnecting" ELSE "connecting",
            !.sockets = Put(@, id, NewSocket(p, g)),
            !.wsRef = id]

\* The loop of onopen that writes the queue to the socket.
RECURSIVE Flush(_, _, _)
Flush(s, t, q) ==
  IF q = <<>> THEN s
  ELSE Flush(WsSend(s, t, Stringify(Head(q))), t, Tail(q))

\* onopen that leaves the queue as it is after writing it.
OnOpen_KeepQueue(s, t) ==
  LET p  == s.sockets[t].p
      s1 == [s EXCEPT !.isConnected = TRUE,
                      !.connectionStatus = "connected",
                      !.reconnectAttempts = 0,
                      !.delayLog = <<>>]
      s2 == WsSend(s1, t, Stringify(InitMsg(p)))
  IN  Flush(s2, t, s2.messageQueue)

\* onopen that writes the queue before the init message.
OnOpen_FlushFirst(s, t) ==
  LET p  == s.sockets[t].p
      s1 == [s EXCEPT !.isConnected = TRUE,
                      !.connectionStatus = "connected",
                      !.reconnectAttempts = 0,
                      !.delayLog = <<>>]
      s2 == Flush(s1, t, s1.messageQueue)
      s3 == WsSend(s2, t, Stringify(InitMsg(p)))
  IN  [s3 EXCEPT !.messageQueue = <<>>]

\* ws.onopen of socket t.
OnOpen(s, t) ==
  LET p  == s.sockets[t].p
      s1 == [s EXCEPT !.isConnected = TRUE,
                      !.connectionStatus = "connected",
                      !.reconnectAttempts = 0,
                      !.delayLog = <<>>]
      s2 == WsSend(s1, t, Stringify(InitMsg(p)))
      s3 == Flush(s2, t, s2.messageQueue)
  IN  [s3 EXCEPT !.messageQueue = <<>>]

\* onmessage whose ping branch does not return after the pong.
OnMessage_PingForwarded(s, t, text) ==
  LET data == JsonParse(text) IN
  IF data.throws THEN s
  ELSE IF ~data.isObject \/ data.isNull \/ data.type = Undef THEN s
  ELSE IF data.type = "ping"
    THEN [WsSend(s, t, Stringify(PongData)) EXCEPT
            !.onMessageCalls = Append(@, text)]
  ELSE [s EXCEPT !.onMessageCalls = Append(@, text)]

\* ws.onmessage of socket t for a frame with the given text.
OnMessage(s, t, text) ==
  LET data == JsonParse(text) IN
  IF data.throws THEN s
  ELSE IF ~data.isObject \/ data.isNull \/ data.type = Undef THEN s
  ELSE IF data.type = "ping" THEN WsSend(s, t, Stringify(PongData))
  ELSE [s EXCEPT !.onMessageCalls = Append(@, text)]

\* ws.onmessage of the shared package's hook (and of the earlier variant):
\* no validation of the parsed value. Reading .type of null throws inside
\* the try block and is caught; any other parsed value that is not a ping is
\* passed to onMessage.
OnMessageUnvalidated(s, t, text) ==
  LET data == JsonParse(text) IN
  IF data.throws THEN s
  ELSE IF data.isNull THEN s
  ELSE IF data.type = "ping" THEN WsSend(s, t, Stringify(PongData))
  ELSE [s EXCEPT !.onMessageCalls = Append(@, text)]

\* The delay without the cap.
ReconnectDelay_Uncapped(n) == INITIAL_RECONNECT_DELAY_MS * Pow2(n)

\* The delay the close handler computes for attempt counter n.
ReconnectDelay(n) ==
  Min(INITIAL_RECONNECT_DELAY_MS * Pow2(n), MAX_RECONNECT_DELAY_MS)

\* onclose that compares the counter with <= instead of <.
OnClose_OneMoreAttempt(s, t) ==
  LET p  == s.sockets[t].p
      g  == s.sockets[t].gen
      s1 == [s EXCEPT !.isConnected = FALSE, !.wsRef = 0]
  IN  IF p.enabled /\ s1.reconnectAttempts <= MAX_RECONNECT_ATTEMPTS
        THEN LET delay == ReconnectDelay(s1.reconnectAttempts)
                 id    == FreeId(s1.timers)
             IN  [s1 EXCEPT
                    !.reconnectAttempts = @ + 1,
                    !.connectionStatus = "reconnecting",
                    !.timers = Put(@, id, [p |-> p, gen |-> g, delay |-> delay]),
                    !.delayLog = Append(@, delay),
                    !.reconnectTimer = id]
        ELSE [s1 EXCEPT
                !.connectionStatus = "disconnected",
                !.onExhaustedCalls =
                   IF s1.reconnectAttempts >= MAX_RECONNECT_ATTEMPTS
                     THEN @ + 1 ELSE @]

\* ws.onclose of socket t.
OnClose(s, t) ==
  LET p  == s.sockets[t].p
      g  == s.sockets[t].gen
      s1 == [s EXCEPT !.isConnected = FALSE, !.wsRef = 0]
  IN  IF p.enabled /\ s1.reconnectAttempts < MAX_RECONNECT_ATTEMPTS
        THEN LET delay == ReconnectDelay(s1.reconnectAttempts)
                 id    == FreeId(s1.timers)
             IN  [s1 EXCEPT
                    !.reconnectAttempts = @ + 1,
                    !.connectionStatus = "reconnecting",
                    !.timers = Put(@, id, [p |-> p, gen |-> g, delay |-> delay]),
                    !.delayLog = Append(@, delay),
                    !.reconnectTimer = id]
        ELSE [s1 EXCEPT
                !.connectionStatus = "disconnected",
                !.onExhaustedCalls =
                   IF s1.reconnectAttempts >= MAX_RECONNECT_ATTEMPTS
                     THEN @ + 1 ELSE @]

\* onerror that gives the connection up.
OnError_Disconnects(s, t) ==
  [s EXCEPT !.onErrorCalls = @ + 1, !.connectionStatus = "disconnected"]

\* ws.onerror of socket t.
OnError(s, t) == [s EXCEPT !.onErrorCalls = @ + 1]

\* The transport fires the events of socket t.
FireOpen(s, t) == OnOpen([s EXCEPT !.sockets[t].readyState = "OPEN"], t)

FireClose(s, t) ==
  LET s1 == OnClose([s EXCEPT !.sockets[t].readyState = "CLOSED"], t)
  IN  [s1 EXCEPT !.sockets = Drop(@, t)]

\* WebSocket.close() called on socket t.  A browser moves the socket to
\* CLOSING and fires the close event from a later task; the MockWebSocket of
\* the test setup sets readyState 3 and runs onclose before close() returns.
WsClose(s, t, mode) ==
  IF s.sockets[t].readyState \in {"CLOSING", "CLOSED"} THEN s
  ELSE IF mode = "sync"
    THEN FireClose([s EXCEPT !.sockets[t].tornDown = TRUE], t)
    ELSE [s EXCEPT !.sockets[t].readyState = "CLOSING",
                   !.sockets[t].tornDown = TRUE]

\* clearTimeout(id): a pending timer never fires; otherwise nothing happens.
ClearTimeout(s, id) ==
  IF id \in DOMAIN s.timers
    THEN [s EXCEPT !.timers = Drop(@, id), !.reconnectTimer = StaleTimer]
    ELSE s

\* The cleanup function returned by the effect.
EffectCleanup(s, mode) ==
  LET s1 == IF s.reconnectTimer # 0 THEN ClearTimeout(s, s.reconnectTimer) ELSE s
  IN  IF s1.wsRef # 0
        THEN [WsClose(s1, s1.wsRef, mode) EXCEPT !.wsRef = 0]
        ELSE s1

\* send(data).
HookSend(s, data) ==
  IF s.wsRef # 0 /\ s.sockets[s.wsRef].readyState = "OPEN"
    THEN WsSend(s, s.wsRef, Stringify(data))
    ELSE [s EXCEPT !.messageQueue = Append(@, data)]

\* A timer that fires without running connect.
FireTimer_NoConnect(s, k) ==
  [s EXCEPT !.timers = Drop(@, k),
            !.reconnectTimer = IF @ = k THEN StaleTimer ELSE @]

\* The timer k fires: connect of the closure it was given runs.
FireTimer(s, k) ==
  LET tm == s.timers[k]
      s1 == [s EXCEPT !.timers = Drop(@, k),
                      !.reconnectTimer = IF @ = k THEN StaleTimer ELSE @]
  IN  Connect(s1, tm.p, tm.gen)

\* ------------------------------------------------------------------ queries
SocketIds == DOMAIN sockets
TimerIds == DOMAIN timers
Live(t) == sockets[t].readyState \in {"CONNECTING", "OPEN"}
LiveSockets == { t \in SocketIds : Live(t) }
OpenSockets == { t \in SocketIds : sockets[t].readyState = "OPEN" }

\* ============================================================ useFetchData
\* ------------------------------------------------------------------- bounds
MaxRefetches == 3   \* calls of refetch(), over all consumers
MaxClock == 2       \* Date.now() runs from 0 to MaxClock

\* ------------------------------------------------------------------ helpers
Null == "null"
NoData == 0

\* Two components use the hook at the same time.
Consumers == {1, 2}

\* UseFetchDataOptions after the defaults (cacheTTL = 0; a pollInterval that
\* is not given is 0 here, falsy like undefined).
FetchOptions(cacheKey, cacheTTL, immediate, pollInterval) ==
  [cacheKey |-> cacheKey, cacheTTL |-> cacheTTL, immediate |-> immediate,
   pollInterval |-> pollInterval]

FetchOptionSet ==
  { FetchOptions("sessions", 2, TRUE, 0),
    FetchOptions("sessions", 3, FALSE, 1),
    FetchOptions("sessions", 0, TRUE, 0),
    FetchOptions(Undef, 0, TRUE, 1) }

\* How the promise returned by fetchFn settles: fulfilled, rejected with an
\* Error, rejected with a value that is not an Error.
Outcomes == { "fulfilled", "rejectedError", "rejectedOther" }

\* The message the catch blocks compute.
ErrorMessage(outcome) ==
  IF outcome = "rejectedError" THEN "Failed to fetch" ELSE "An error occurred"

\* The state refetch reads and writes.
FetchState ==
  [consumer |-> consumer, inFlightRequests |-> inFlightRequests,
   resultCache |-> resultCache, promises |-> promises,
   refetchCalls |-> refetchCalls, fetchCalls |-> fetchCalls]

CommitFetch(f) ==
  /\ consumer' = f.consumer
  /\ inFlightRequests' = f.inFlightRequests
  /\ resultCache' = f.resultCache
  /\ promises' = f.promises
  /\ refetchCalls' = f.refetchCalls
  /\ fetchCalls' = f.fetchCalls

\* A cache check that still serves an entry whose age equals the TTL.
CacheHit_Inclusive(f, c, t) ==
  LET o == fetchOptions[c] IN
  /\ Truthy(o.cacheKey)
  /\ o.cacheTTL > 0
  /\ o.cacheKey \in DOMAIN f.resultCache
  /\ t - f.resultCache[o.cacheKey].timestamp <= o.cacheTTL

\* The branch refetch() of consumer c takes at time t.
CacheHit(f, c, t) ==
  LET o == fetchOptions[c] IN
  /\ Truthy(o.cacheKey)
  /\ o.cacheTTL > 0
  /\ o.cacheKey \in DOMAIN f.resultCache
  /\ t - f.resultCache[o.cacheKey].timestamp < o.cacheTTL

\* A refetch that never finds a request in flight.
Joins_Never(f, c) == FALSE

Joins(f, c) ==
  /\ Truthy(fetchOptions[c].cacheKey)
  /\ fetchOptions[c].cacheKey \in DOMAIN f.inFlightRequests

\* refetch() of consumer c up to its first await (or its return): the cached
\* value is served, or the call awaits the promise in flight for its key, or
\* it calls fetchFn, registers the promise and awaits it.  The n-th call of
\* fetchFn is going to produce the result n.
Refetch(f, c, t) ==
  LET o   == fetchOptions[c]
      key == o.cacheKey
      f0  == [f EXCEPT !.refetchCalls = @ + 1]
  IN  IF CacheHit(f, c, t)
        THEN [f0 EXCEPT !.consumer[c].data = f.resultCache[key].data,
                        !.consumer[c].loading = FALSE]
      ELSE IF Joins(f, c)
        THEN [f0 EXCEPT !.promises[f.inFlightRequests[key]].waiters =
                          Append(@, [c |-> c, kind |-> "join"])]
      ELSE LET id == FreeId(f.promises) IN
           [f0 EXCEPT
              !.consumer[c].loading = TRUE,
              !.consumer[c].error = Null,
              !.fetchCalls = @ + 1,
              !.promises = Put(@, id, [key |-> key, result |-> f.fetchCalls + 1,
                                       waiters |-> << [c |-> c, kind |-> "start"] >>,
                                       invalidated |-> FALSE]),
              !.inFlightRequests = IF Truthy(key) THEN Put(@, key, id) ELSE @]

\* A continuation that removes the in-flight registration on success only.
Resume_KeepsFailedRequest(f, w, pr, outcome, t) ==
  LET c   == w.c
      o   == fetchOptions[c]
      key == o.cacheKey
      f1  == IF outcome = "fulfilled"
               THEN [f EXCEPT !.consumer[c].data = pr.result]
               ELSE [f EXCEPT !.consumer[c].error = ErrorMessage(outcome)]
      f2  == IF w.kind = "start" /\ outcome = "fulfilled"
                  /\ Truthy(key) /\ o.cacheTTL > 0
               THEN [f1 EXCEPT !.resultCache =
                       Put(@, key, [data |-> pr.result, timestamp |-> t])]
               ELSE f1
      f3  == IF w.kind = "start" /\ Truthy(key) /\ outcome = "fulfilled"
               THEN [f2 EXCEPT !.inFlightRequests = Drop(@, key)]
               ELSE f2
  IN  [f3 EXCEPT !.consumer[c].loading = FALSE]

\* A continuation in which a joining call only ends loading.
Resume_JoinIgnored(f, w, pr, outcome, t) ==
  LET c   == w.c
      o   == fetchOptions[c]
      key == o.cacheKey
      f1  == IF w.kind = "join" THEN f
             ELSE IF outcome = "fulfilled"
               THEN [f EXCEPT !.consumer[c].data = pr.result]
               ELSE [f EXCEPT !.consumer[c].error = ErrorMessage(outcome)]
      f2  == IF w.kind = "start" /\ outcome = "fulfilled"
                  /\ Truthy(key) /\ o.cacheTTL > 0
               THEN [f1 EXCEPT !.resultCache =
                       Put(@, key, [data |-> pr.result, timestamp |-> t])]
               ELSE f1
      f3  == IF w.kind = "start" /\ Truthy(key)
               THEN [f2 EXCEPT !.inFlightRequests = Drop(@, key)]
               ELSE f2
  IN  [f3 EXCEPT !.consumer[c].loading = FALSE]

\* The rest of a refetch() call w after its await, for promise pr settled
\* with the given outcome at time t.
Resume(f, w, pr, outcome, t) ==
  LET c   == w.c
      o   == fetchOptions[c]
      key == o.cacheKey
      f1  == IF outcome = "fulfilled"
               THEN [f EXCEPT !.consumer[c].data = pr.result]
               ELSE [f EXCEPT !.consumer[c].error = ErrorMessage(outcome)]
      f2  == IF w.kind = "start" /\ outcome = "fulfilled"
                  /\ Truthy(key) /\ o.cacheTTL > 0
               THEN [f1 EXCEPT !.resultCache =
                       Put(@, key, [data |-> pr.result, timestamp |-> t])]
               ELSE f1
      f3  == IF w.kind = "start" /\ Truthy(key)
               THEN [f2 EXCEPT !.inFlightRequests = Drop(@, key)]
               ELSE f2
  IN  [f3 EXCEPT !.consumer[c].loading = FALSE]

\* The reactions of a settled promise run in the order the calls awaited it.
RECURSIVE ResumeAll(_, _, _, _, _)
ResumeAll(f, ws, pr, outcome, t) ==
  IF ws = <<>> THEN f
  ELSE ResumeAll(Resume(f, Head(ws), pr, outcome, t), Tail(ws), pr, outcome, t)

\* Promise p settles: its reactions run as microtasks, before any other task.
SettlePromise(f, p, outcome, t) ==
  LET pr == f.promises[p]
  IN  [ResumeAll(f, pr.waiters, pr, outcome, t) EXCEPT !.promises = Drop(@, p)]

PromiseIds == DOMAIN promises

\* clearCacheKey(key) and clearFetchCache().  The field `invalidated` of a
\* pending promise records that the cache was cleared for its key after
\* fetchFn was called; no code reads it.
MarkInvalidated(ps, keys) ==
  [p \in DOMAIN ps |->
     IF ps[p].key \in keys THEN [ps[p] EXCEPT !.invalidated = TRUE] ELSE ps[p]]

clearCacheKey(f, key) ==
  [f EXCEPT !.resultCache = Drop(@, key),
            !.promises = MarkInvalidated(@, {key})]

clearFetchCache(f) ==
  [f EXCEPT !.resultCache = Empty,
            !.promises = MarkInvalidated(@, { @[p].key : p \in DOMAIN @ })]

\* No player session has been stored.
SessionIdle ==
  /\ memorySession = {}
  /\ sessionStorage = Empty
  /\ sessionReturn = {}
  /\ sessionStoredAt = {}
  /\ sessionTouchedAt = {}

\* A dispatcher without handlers that was never called.
DispatchIdle ==
  /\ handlers = Empty
  /\ dispatchLog = <<>>

\* The pages are not shown and no REST call fails.
HostIdle ==
  /\ players = <<>>
  /\ hostHandled = 0

PlayIdle ==
  /\ playVariant = "Play.tsx"
  /\ playState = [phase |-> "waiting", currentQuestion |-> {},
                  lastResult |-> {}, selectedAnswer |-> {},
                  timeRemaining |-> 0, score |-> 0, currentGame |-> Null]
  /\ lastQuestionIdRef = Null
  /\ timerRef = FALSE
  /\ playHandled = 0

ApiIdle == apiLog = <<>>

PagesIdle == HostIdle /\ PlayIdle /\ ApiIdle

\* No component uses useFetchData.
FetchIdle ==
  /\ fetchOptions = [c \in Consumers |-> FetchOptions(Undef, 0, FALSE, 0)]
  /\ consumer = [c \in Consumers |->
                   [phase |-> "new", data |-> NoData, loading |-> FALSE,
                    error |-> Null]]
  /\ inFlightRequests = Empty
  /\ resultCache = Empty
  /\ promises = Empty
  /\ now = 0
  /\ refetchCalls = 0
  /\ fetchCalls = 0

\* --------------------------------------------------------------------- Init
\* The hook state of the first render, before the effect has run.
InitialHookState ==
  [wsRef |-> 0, isConnected |-> FALSE, connectionStatus |-> "disconnected",
   reconnectAttempts |-> 0, reconnectTimer |-> 0, messageQueue |-> <<>>,
   sockets |-> Empty, timers |-> Empty, delayLog |-> <<>>,
   writeCount |-> [n \in 1..MaxSends |-> 0],
   onMessageCalls |-> <<>>, onErrorCalls |-> 0, onExhaustedCalls |-> 0]

\* First render and first effect run: connect() with the initial options.
Init ==
  /\ options \in OptionSet
  /\ closeMode \in {"async", "sync"}
  /\ FetchIdle
  /\ SessionIdle
  /\ DispatchIdle
  /\ PagesIdle
  /\ mounted = TRUE
  /\ renders = 0
  /\ inbound = 0
  /\ sends = 0
  /\ LET s == Connect(InitialHookState, options, 1) IN
       /\ wsRef = s.wsRef
       /\ isConnected = s.isConnected
       /\ connectionStatus = s.connectionStatus
       /\ reconnectAttempts = s.reconnectAttempts
       /\ reconnectTimer = s.reconnectTimer
       /\ messageQueue = s.messageQueue
       /\ sockets = s.sockets
       /\ timers = s.timers
       /\ delayLog = s.delayLog
       /\ writeCount = s.writeCount
       /\ onMessageCalls = s.onMessageCalls
       /\ onErrorCalls = s.onErrorCalls
       /\ onExhaustedCalls = s.onExhaustedCalls

\* The page uses the WebSocket hook with enabled: false: connect() returns
\* at once and the hook stays in its initial state.
WsIdle ==
  /\ options = Options("XYZ789", "host", Undef, Undef, Undef, FALSE)
  /\ closeMode = "async"
  /\ mounted = TRUE
  /\ renders = 0
  /\ inbound = 0
  /\ sends = 0
  /\ wsRef = 0
  /\ isConnected = FALSE
  /\ connectionStatus = "disconnected"
  /\ reconnectAttempts = 0
  /\ reconnectTimer = 0
  /\ messageQueue = <<>>
  /\ sockets = Empty
  /\ timers = Empty
  /\ delayLog = <<>>
  /\ writeCount = [n \in 1..MaxSends |-> 0]
  /\ onMessageCalls = <<>>
  /\ onErrorCalls = 0
  /\ onExhaustedCalls = 0

\* Two components are about to render with useFetchData: useState gives
\* data null, loading = immediate, error null.
InitFetch ==
  /\ WsIdle
  /\ SessionIdle
  /\ DispatchIdle
  /\ PagesIdle
  /\ fetchOptions \in [Consumers -> FetchOptionSet]
  /\ consumer = [c \in Consumers |->
                   [phase |-> "new", data |-> NoData,
                    loading |-> fetchOptions[c].immediate, error |-> Null]]
  /\ inFlightRequests = Empty
  /\ resultCache = Empty
  /\ promises = Empty
  /\ now = 0
  /\ refetchCalls = 0
  /\ fetchCalls = 0

\* ------------------------------------------------------------------ actions
\* A re-render with options that change a dependency of connect: React runs
\* the cleanup of the previous effect, then the effect with the new connect.
Rerender(p) ==
  /\ mounted
  /\ renders < MaxRenders
  /\ p # options
  /\ options' = p
  /\ renders' = renders + 1
  /\ Commit(Connect(EffectCleanup(HookState, closeMode), p, EffectRun + 1))
  /\ UNCHANGED << mounted, closeMode, sends, inbound >>
  /\ UNCHANGED appVars

\* The component unmounts: React runs the cleanup of the effect.
Unmount ==
  /\ mounted
  /\ mounted' = FALSE
  /\ Commit(EffectCleanup(HookState, closeMode))
  /\ UNCHANGED << options, renders, closeMode, sends, inbound >>
  /\ UNCHANGED appVars

\* The transport of socket t is established: readyState OPEN, open event.
SocketOpen(t) ==
  /\ sockets[t].readyState = "CONNECTING"
  /\ Commit(FireOpen(HookState, t))
  /\ UNCHANGED << options, mounted, renders, closeMode, sends, inbound >>
  /\ UNCHANGED appVars

\* The transport of socket t fails or is closed by the server: readyState
\* CLOSED and the close event, in one task.
SocketClose(t) ==
  /\ Live(t)
  /\ Commit(FireClose(HookState, t))
  /\ UNCHANGED << options, mounted, renders, closeMode, sends, inbound >>
  /\ UNCHANGED appVars

\* The close event of a socket on which close() was called is delivered.
DeliverClose(t) ==
  /\ sockets[t].readyState = "CLOSING"
  /\ Commit(FireClose(HookState, t))
  /\ UNCHANGED << options, mounted, renders, closeMode, sends, inbound >>
  /\ UNCHANGED appVars

\* The error event of socket t.
SocketError(t) ==
  /\ onErrorCalls < MaxErrors
  /\ Commit(OnError(HookState, t))
  /\ UNCHANGED << options, mounted, renders, closeMode, sends, inbound >>
  /\ UNCHANGED appVars

\* An inbound frame arrives on the open socket t.
SocketMessage(t, text) ==
  /\ sockets[t].readyState = "OPEN"
  /\ inbound < MaxInbound
  /\ inbound' = inbound + 1
  /\ Commit(OnMessage(HookState, t, text))
  /\ UNCHANGED << options, mounted, renders, closeMode, sends >>
  /\ UNCHANGED appVars

\* An inbound frame arrives on the open socket t of the shared package's hook.
SocketMessageShared(t, text) ==
  /\ sockets[t].readyState = "OPEN"
  /\ inbound < MaxInbound
  /\ inbound' = inbound + 1
  /\ Commit(OnMessageUnvalidated(HookState, t, text))
  /\ UNCHANGED << options, mounted, renders, closeMode, sends >>
  /\ UNCHANGED appVars

\* The reconnect timer k fires and runs the connect it was given.
TimerFire(k) ==
  /\ Commit(FireTimer(HookState, k))
  /\ UNCHANGED << options, mounted, renders, closeMode, sends, inbound >>
  /\ UNCHANGED appVars

\* The component calls send() with the next outbound data object.
Send ==
  /\ mounted
  /\ sends < MaxSends
  /\ sends' = sends + 1
  /\ Commit(HookSend(HookState, OutboundData(sends + 1)))
  /\ UNCHANGED << options, mounted, renders, closeMode, inbound >>
  /\ UNCHANGED appVars

\* ----------------------------------------------------- useFetchData actions
\* Consumer c mounts: the initial-fetch effect calls refetch() when immediate
\* is set; the polling effect starts the interval when pollInterval is set.
Activate(c) ==
  /\ consumer[c].phase = "new"
  /\ refetchCalls < MaxRefetches
  /\ LET f == [FetchState EXCEPT !.consumer[c].phase = "mounted"]
     IN  CommitFetch(IF fetchOptions[c].immediate THEN Refetch(f, c, now) ELSE f)
  /\ UNCHANGED << fetchOptions, now >>
  /\ UNCHANGED << wsVars, sessionVars, dispatchVars, pageVars >>

\* Consumer c unmounts: the polling effect's cleanup clears the interval.
Deactivate(c) ==
  /\ consumer[c].phase = "mounted"
  /\ CommitFetch([FetchState EXCEPT !.consumer[c].phase = "unmounted"])
  /\ UNCHANGED << fetchOptions, now >>
  /\ UNCHANGED << wsVars, sessionVars, dispatchVars, pageVars >>

\* The polling interval of consumer c fires.
PollTick(c) ==
  /\ consumer[c].phase = "mounted"
  /\ fetchOptions[c].pollInterval # 0
  /\ refetchCalls < MaxRefetches
  /\ CommitFetch(Refetch(FetchState, c, now))
  /\ UNCHANGED << fetchOptions, now >>
  /\ UNCHANGED << wsVars, sessionVars, dispatchVars, pageVars >>

\* The component of consumer c calls the refetch it was given.
ManualRefetch(c) ==
  /\ consumer[c].phase = "mounted"
  /\ refetchCalls < MaxRefetches
  /\ CommitFetch(Refetch(FetchState, c, now))
  /\ UNCHANGED << fetchOptions, now >>
  /\ UNCHANGED << wsVars, sessionVars, dispatchVars, pageVars >>

\* The promise p returned by fetchFn settles.
Settle(p, outcome) ==
  /\ CommitFetch(SettlePromise(FetchState, p, outcome, now))
  /\ UNCHANGED << fetchOptions, now >>
  /\ UNCHANGED << wsVars, sessionVars, dispatchVars, pageVars >>

\* Time passes.
Tick ==
  /\ now < MaxClock
  /\ now' = now + 1
  /\ UNCHANGED << fetchOptions, consumer, inFlightRequests, resultCache,
                  promises, refetchCalls, fetchCalls >>
  /\ UNCHANGED << wsVars, sessionVars, dispatchVars, pageVars >>

\* A page invalidates the cached result of a key, or the whole cache.
ClearCacheKey(key) ==
  /\ CommitFetch(clearCacheKey(FetchState, key))
  /\ UNCHANGED << fetchOptions, now >>
  /\ UNCHANGED << wsVars, sessionVars, dispatchVars, pageVars >>

ClearFetchCache ==
  /\ CommitFetch(clearFetchCache(FetchState))
  /\ UNCHANGED << fetchOptions, now >>
  /\ UNCHANGED << wsVars, sessionVars, dispatchVars, pageVars >>

NextFetch ==
  \/ \E c \in Consumers : Activate(c)
  \/ \E c \in Consumers : Deactivate(c)
  \/ \E c \in Consumers : PollTick(c)
  \/ \E c \in Consumers : ManualRefetch(c)
  \/ \E p \in PromiseIds, outcome \in Outcomes : Settle(p, outcome)
  \/ Tick

SpecFetch == InitFetch /\ [][NextFetch]_vars

\* The hook together with the invalidation functions, for components that
\* stay mounted and refetch by hand.
NextFetchClear ==
  \/ \E c \in Consumers : Activate(c)
  \/ \E c \in Consumers : ManualRefetch(c)
  \/ \E p \in PromiseIds, outcome \in Outcomes : Settle(p, outcome)
  \/ \E key \in {"sessions"} : ClearCacheKey(key)
  \/ ClearFetchCache
  \/ Tick

SpecFetchClear == InitFetch /\ [][NextFetchClear]_vars

\* ========================================================== player session
SESSION_EXPIRY_MS == 4 * 60 * 60 * 1000
HOUR_MS == 60 * 60 * 1000

\* ------------------------------------------------------------------- bounds
MaxHours == 6       \* Date.now() runs from 0 to MaxHours hours

\* The sessions the server hands out on join (player_token is the bearer
\* token), and the teams a reconnect reports.
SessionSet ==
  { [playerId |-> "player-123", playerToken |-> "secret-token",
     displayName |-> "TestPlayer", sessionCode |-> "ABC123",
     teamId |-> Null, teamName |-> Null],
    [playerId |-> "player-456", playerToken |-> "token-456",
     displayName |-> "Second", sessionCode |-> "XYZ789",
     teamId |-> "team-1", teamName |-> "Red"] }

Teams == { [teamId |-> Null, teamName |-> Null],
           [teamId |-> "team-1", teamName |-> "Red"] }

\* JSON.parse of the text of a flat object.
ParseObject(text) ==
  [k \in { pair[1] : pair \in text } |->
     (CHOOSE pair \in text : pair[1] = k)[2]]

\* The state the session functions read and write.
SessionState ==
  [memorySession |-> memorySession, sessionStorage |-> sessionStorage,
   sessionReturn |-> sessionReturn, sessionStoredAt |-> sessionStoredAt,
   sessionTouchedAt |-> sessionTouchedAt]

CommitSession(ss) ==
  /\ memorySession' = ss.memorySession
  /\ sessionStorage' = ss.sessionStorage
  /\ sessionReturn' = ss.sessionReturn
  /\ sessionStoredAt' = ss.sessionStoredAt
  /\ sessionTouchedAt' = ss.sessionTouchedAt

storeSecureSession(ss, session, t) ==
  LET sessionWithExpiry ==
        [playerId |-> session.playerId, playerToken |-> session.playerToken,
         displayName |-> session.displayName,
         sessionCode |-> session.sessionCode, teamId |-> session.teamId,
         teamName |-> session.teamName, expiresAt |-> t + SESSION_EXPIRY_MS]
      metadata ==
        [playerId |-> session.playerId, displayName |-> session.displayName,
         sessionCode |-> session.sessionCode, teamId |-> session.teamId,
         teamName |-> session.teamName]
  IN  [ss EXCEPT !.memorySession = { sessionWithExpiry },
                 !.sessionStorage =
                    Put(@, "quizparty_session_meta", Stringify(metadata)),
                 !.sessionStoredAt = { t },
                 !.sessionTouchedAt = { t }]

clearSecureSession(ss) ==
  [ss EXCEPT !.memorySession = {},
             !.sessionStorage = Drop(@, "quizparty_session_meta"),
             !.sessionStoredAt = {},
             !.sessionTouchedAt = {}]

\* A getSecureSession that reports an expired session without clearing it.
getSecureSession_NoClear(ss, t) ==
  IF ss.memorySession = {} THEN [ss EXCEPT !.sessionReturn = {}]
  ELSE LET m == CHOOSE m \in ss.memorySession : TRUE IN
       IF m.expiresAt # 0 /\ t > m.expiresAt
         THEN [ss EXCEPT !.sessionReturn = {}]
         ELSE [ss EXCEPT !.sessionReturn = ss.memorySession]

getSecureSession(ss, t) ==
  IF ss.memorySession = {} THEN [ss EXCEPT !.sessionReturn = {}]
  ELSE LET m == CHOOSE m \in ss.memorySession : TRUE IN
       IF m.expiresAt # 0 /\ t > m.expiresAt
         THEN [clearSecureSession(ss) EXCEPT
                 !.sessionReturn = {},
                 !.sessionStoredAt = ss.sessionStoredAt,
                 !.sessionTouchedAt = ss.sessionTouchedAt]
         ELSE [ss EXCEPT !.sessionReturn = ss.memorySession]

refreshSessionExpiry(ss, t) ==
  IF ss.memorySession = {} THEN ss
  ELSE [ss EXCEPT
          !.memorySession =
             { [m EXCEPT !.expiresAt = t + SESSION_EXPIRY_MS] : m \in @ },
          !.sessionTouchedAt = { t }]

\* The readers: {} is null.
getSessionMetadata(ss) ==
  IF "quizparty_session_meta" \in DOMAIN ss.sessionStorage
    THEN { ParseObject(ss.sessionStorage["quizparty_session_meta"]) }
    ELSE {}

getPlayerToken(ss) == { m.playerToken : m \in ss.memorySession }

\* hasValidSession() at time t: what it returns (it calls getSecureSession,
\* which clears an expired session on the way).
hasValidSession(ss, t) == getSecureSession(ss, t).sessionReturn # {}

\* playerAPI's helpers.
getStoredSession(ss) ==
  IF "quizparty_session" \in DOMAIN ss.sessionStorage
    THEN { ParseObject(ss.sessionStorage["quizparty_session"]) }
    ELSE {}

storeSession(ss, session) ==
  [ss EXCEPT !.sessionStorage = Put(@, "quizparty_session", Stringify(session))]

clearSession(ss) ==
  [ss EXCEPT !.sessionStorage = Drop(@, "quizparty_session")]

\* ----------------------------------------------------------------- actions
\* Not touched by the session functions.
notSessionVars ==
  << wsVars, dispatchVars, pageVars, fetchOptions, consumer,
     inFlightRequests, resultCache, promises, refetchCalls, fetchCalls >>

StoreSecure(session) ==
  /\ CommitSession(storeSecureSession(SessionState, session, now))
  /\ UNCHANGED << notSessionVars, now >>

GetSecure ==
  /\ CommitSession(getSecureSession(SessionState, now))
  /\ UNCHANGED << notSessionVars, now >>

RefreshExpiry ==
  /\ CommitSession(refreshSessionExpiry(SessionState, now))
  /\ UNCHANGED << notSessionVars, now >>

ClearSecure ==
  /\ CommitSession(clearSecureSession(SessionState))
  /\ UNCHANGED << notSessionVars, now >>

\* The Join page: the join request succeeded and its response is stored.
JoinGame(session) ==
  /\ getStoredSession(SessionState) = {}
  /\ CommitSession(storeSession(SessionState, session))
  /\ UNCHANGED << notSessionVars, now >>

\* The Join page, "Rejoin Game": the reconnect request succeeded; the stored
\* session is stored again with the team the server reports.
RejoinGame(team) ==
  /\ getStoredSession(SessionState) # {}
  /\ LET existing == CHOOSE e \in getStoredSession(SessionState) : TRUE
         updated  == [existing EXCEPT !.teamId = team.teamId,
                                      !.teamName = team.teamName]
     IN  CommitSession(storeSession(SessionState, updated))
  /\ UNCHANGED << notSessionVars, now >>

\* "Join a different game", a failed reconnect, or session_ended on the Lobby
\* and Play pages.
LeaveGame ==
  /\ CommitSession(clearSession(SessionState))
  /\ UNCHANGED << notSessionVars, now >>

\* The tab reloads the page: the module is loaded again, sessionStorage is
\* kept ("Keep metadata for reconnection, but token is naturally cleared").
Reload ==
  /\ memorySession' = {}
  /\ sessionReturn' = {}
  /\ sessionStoredAt' = {}
  /\ sessionTouchedAt' = {}
  /\ UNCHANGED << notSessionVars, now, sessionStorage >>

\* An hour passes.
HourPasses ==
  /\ now < MaxHours * HOUR_MS
  /\ now' = now + HOUR_MS
  /\ UNCHANGED << notSessionVars, sessionVars >>

InitSession ==
  WsIdle /\ FetchIdle /\ SessionIdle /\ DispatchIdle /\ PagesIdle

NextSession ==
  \/ \E session \in SessionSet : StoreSecure(session)
  \/ GetSecure
  \/ RefreshExpiry
  \/ ClearSecure
  \/ \E session \in SessionSet : JoinGame(session)
  \/ \E team \in Teams : RejoinGame(team)
  \/ LeaveGame
  \/ Reload
  \/ HourPasses

SpecSession == InitSession /\ [][NextSession]_vars

\* ======================================================= message dispatcher
\* ------------------------------------------------------------------- bounds
MaxDispatches == 2  \* messages handed to the dispatcher

\* The handler maps a dispatcher is created with: type tag -> handler.
HandlerMaps ==
  { ("lobby_update" :> "lobbyHandler") @@ ("player_connected" :> "connectHandler"),
    ("test" :> "testHandler"),
    ("toString" :> "testHandler") @@ ("lobby_update" :> "lobbyHandler") }

\* What a handler map, an object literal, inherits from Object.prototype: the
\* functions return when called with a message, __proto__ is the prototype
\* object itself.
ObjectPrototype ==
  ("toString" :> "function") @@ ("constructor" :> "function")
    @@ ("__proto__" :> "object")

\* The messages handed to a dispatcher; Undef is a message without a type.
MessageTypes ==
  { "lobby_update", "player_connected", "test", "unknown", "toString",
    "constructor", "__proto__", Undef }

Messages == [type : MessageTypes, payload : {0, 1}]

\* handlers[msg.type]: an own property, else what the prototype chain has
\* under that name, else undefined.
Lookup(h, type) ==
  IF type \in DOMAIN h
    THEN [kind |-> "function", name |-> h[type]]
  ELSE IF type \in DOMAIN ObjectPrototype
    THEN [kind |-> ObjectPrototype[type], name |-> "Object.prototype." \o type]
  ELSE [kind |-> Undef, name |-> Undef]

\* The function createMessageDispatcher(h) returns, applied to msg: the calls
\* it makes and what it returns; calling a value that is no function throws a
\* TypeError.
dispatch(h, msg) ==
  LET handler == Lookup(h, msg.type) IN
  IF handler.kind = Undef
    THEN [called |-> <<>>, returned |-> "false"]
  ELSE IF handler.kind = "function"
    THEN [called |-> << [handler |-> handler.name, arg |-> msg] >>,
          returned |-> "true"]
  ELSE [called |-> <<>>, returned |-> "throws"]

Dispatch(msg) ==
  /\ Len(dispatchLog) < MaxDispatches
  /\ LET r == dispatch(handlers, msg) IN
     dispatchLog' = Append(dispatchLog,
                      [msg |-> msg, called |-> r.called, returned |-> r.returned])
  /\ UNCHANGED << handlers, wsVars, fetchVars, sessionVars, pageVars >>

InitDispatch ==
  /\ WsIdle /\ FetchIdle /\ SessionIdle /\ PagesIdle
  /\ handlers \in HandlerMaps
  /\ dispatchLog = <<>>

NextDispatch == \E msg \in Messages : Dispatch(msg)

SpecDispatch == InitDispatch /\ [][NextDispatch]_vars

\* ============================================================== host screen
\* ------------------------------------------------------------------- bounds
MaxHostMessages == 4    \* messages handled by the host screen

PlayerIds == { "p1", "p2", "p3" }

DisplayName(id) ==
  CASE id = "p1" -> "Ann" [] id = "p2" -> "Bob" [] OTHER -> "Cy"

\* A PlayerInfo.
PlayerInfo(id, connected) ==
  [player_id |-> id, display_name |-> DisplayName(id), team_id |-> Null,
   score |-> 0, connected |-> connected]

\* The player lists the server sends in lobby_update: each player once.
LobbyLists ==
  { <<>>,
    << PlayerInfo("p1", TRUE) >>,
    << PlayerInfo("p1", FALSE), PlayerInfo("p2", TRUE) >>,
    << PlayerInfo("p3", TRUE), PlayerInfo("p2", TRUE), PlayerInfo("p1", TRUE) >> }

HostMessages ==
  { [type |-> "lobby_update", players |-> l] : l \in LobbyLists }
    \cup { [type |-> "player_connected", player_id |-> id,
            display_name |-> DisplayName(id)] : id \in PlayerIds }
    \cup { [type |-> "player_disconnected", player_id |-> id] : id \in PlayerIds }
    \cup { [type |-> "session_ended"] }

\* What handleMessage makes of the players state.
HostHandleMessage(prev, msg) ==
  CASE msg.type = "lobby_update" -> msg.players
    [] msg.type = "player_connected" ->
         IF \E i \in DOMAIN prev : prev[i].player_id = msg.player_id
           THEN prev
           ELSE Append(prev, [player_id |-> msg.player_id,
                              display_name |-> msg.display_name,
                              team_id |-> Null, score |-> 0,
                              connected |-> TRUE])
    [] msg.type = "player_disconnected" ->
         [i \in DOMAIN prev |->
            IF prev[i].player_id = msg.player_id
              THEN [prev[i] EXCEPT !.connected = FALSE]
              ELSE prev[i]]
    [] OTHER -> prev

\* The hook hands a message to the host screen.
HostMessage(msg) ==
  /\ hostHandled < MaxHostMessages
  /\ hostHandled' = hostHandled + 1
  /\ players' = HostHandleMessage(players, msg)
  /\ UNCHANGED << wsVars, fetchVars, sessionVars, dispatchVars, playVars,
                  apiVars >>

InitHost ==
  /\ WsIdle /\ FetchIdle /\ SessionIdle /\ DispatchIdle
  /\ PlayIdle /\ ApiIdle
  /\ HostIdle

NextHost == \E msg \in HostMessages : HostMessage(msg)

SpecHost == InitHost /\ [][NextHost]_vars

\* ================================================================= apiFetch
\* ------------------------------------------------------------------- bounds
MaxApiCalls == 2    \* calls of apiFetch that get a non-2xx response

Statuses == { 400, 404, 500 }

\* Response bodies: JSON with a detail, JSON without one, text that is no
\* JSON, and nothing.
Bodies == { "{\"detail\":\"Session is full\"}", "{\"error\":\"bad\"}",
            "Internal Server Error", "" }

\* response.json(): it rejects when the body is not JSON.
ResponseJson(body) ==
  CASE body = "{\"detail\":\"Session is full\"}" ->
         [throws |-> FALSE, detail |-> "Session is full"]
    [] body = "{\"error\":\"bad\"}" -> [throws |-> FALSE, detail |-> Undef]
    [] OTHER -> [throws |-> TRUE, detail |-> Undef]

\* The non-2xx responses.  The body of a Response of fetch can be read once:
\* after json() has consumed it, text() rejects.  The response objects of the
\* tests are plain objects whose methods can each be called.
Responses == [status : Statuses, body : Bodies, bodyReadOnce : BOOLEAN]

\* response.text().catch(() => '') after response.json() has rejected.
ResponseTextAfterJson(resp) == IF resp.bodyReadOnce THEN "" ELSE resp.body

\* The message of the error apiFetch throws for the response.
apiFetchError(resp) ==
  LET json  == ResponseJson(resp.body)
      text  == ResponseTextAfterJson(resp)
      error == IF ~json.throws
                 THEN [detail |-> json.detail]
                 ELSE [detail |->
                         IF text # "" THEN text
                         ELSE "Request failed with HTTP " \o ToString(resp.status)]
  IN  IF Truthy(error.detail) THEN error.detail
      ELSE "HTTP " \o ToString(resp.status)

\* A REST call is answered with a non-2xx response and rejects.
ApiCall(resp) ==
  /\ Len(apiLog) < MaxApiCalls
  /\ apiLog' = Append(apiLog, [response |-> resp, message |-> apiFetchError(resp)])
  /\ UNCHANGED << wsVars, fetchVars, sessionVars, dispatchVars, hostVars,
                  playVars >>

InitApi ==
  /\ WsIdle /\ FetchIdle /\ SessionIdle /\ DispatchIdle
  /\ HostIdle /\ PlayIdle
  /\ ApiIdle

NextApi == \E resp \in Responses : ApiCall(resp)

SpecApi == InitApi /\ [][NextApi]_vars

\* ================================================================ Play page
\* ------------------------------------------------------------------- bounds
MaxPlayMessages == 3    \* messages handled by the Play page

PlayVariants == { "Play.tsx", "part_012" }

\* The messages the server sends to a player ({} is an absent number).
QuestionMessages ==
  [type : {"question"}, question_id : {"q1", "q2"}, time_limit : {1, 2},
   game_type : {"trivia"}]

PlayMessages ==
  QuestionMessages
    \cup { [type |-> "game_intro", game_type |-> "speed"],
           [type |-> "answer_result", new_total |-> 10],
           [type |-> "round_results", your_score |-> {20}],
           [type |-> "round_results", your_score |-> {}],
           [type |-> "session_ended"] }

InitialGameState ==
  [phase |-> "waiting", currentQuestion |-> {}, lastResult |-> {},
   selectedAnswer |-> {}, timeRemaining |-> 0, score |-> 0,
   currentGame |-> Null]

\* The state updater handleMessage passes to setState.
PlayHandleMessage(prev, msg) ==
  CASE msg.type = "game_intro" ->
         [prev EXCEPT !.phase = "intermission", !.currentGame = msg.game_type]
    [] msg.type = "question" ->
         [prev EXCEPT !.phase = "question",
                      !.currentQuestion = { msg },
                      !.selectedAnswer = {},
                      !.timeRemaining = msg.time_limit,
                      !.currentGame = msg.game_type]
    [] msg.type = "answer_result" ->
         [prev EXCEPT !.phase = "result", !.lastResult = { msg },
                      !.score = msg.new_total]
    [] msg.type = "round_results" ->
         [prev EXCEPT !.phase = "intermission",
                      !.score = IF msg.your_score = {} THEN @
                                ELSE CHOOSE n \in msg.your_score : TRUE]
    [] msg.type = "session_ended" -> [prev EXCEPT !.phase = "ended"]
    [] OTHER -> prev

\* state.currentQuestion?.question_id ?? null
CurrentQuestionId(st) ==
  IF st.currentQuestion = {} THEN Null
  ELSE (CHOOSE q \in st.currentQuestion : TRUE).question_id

\* The dependencies of the timer effect.
TimerDeps(st) == << st.phase, CurrentQuestionId(st) >>

\* The timer effect runs for the rendered state st, after the cleanup of the
\* previous run has cleared the interval: the values of lastQuestionIdRef
\* and of timerRef (an interval is running) it leaves.
TimerEffect(variant, st, lastId) ==
  LET isNewQuestion == CurrentQuestionId(st) # lastId IN
  IF variant = "Play.tsx"
    THEN [lastQuestionIdRef |-> CurrentQuestionId(st),
          timerRef |-> st.phase = "question"
                         /\ (isNewQuestion \/ st.timeRemaining > 0)]
  ELSE IF st.phase # "question"
    THEN [lastQuestionIdRef |-> lastId, timerRef |-> FALSE]
  ELSE [lastQuestionIdRef |-> CurrentQuestionId(st), timerRef |-> isNewQuestion]

\* The state updater of the interval callback.
CountDown(prev) ==
  IF prev.timeRemaining <= 1 THEN [prev EXCEPT !.timeRemaining = 0]
  ELSE [prev EXCEPT !.timeRemaining = @ - 1]

\* The hook hands a message to the Play page: the state is updated, the page
\* renders, and the timer effect runs again when a dependency has changed.
PlayMessage(msg) ==
  /\ playHandled < MaxPlayMessages
  /\ playHandled' = playHandled + 1
  /\ LET st == PlayHandleMessage(playState, msg) IN
       /\ playState' = st
       /\ IF TimerDeps(st) # TimerDeps(playState)
            THEN LET e == TimerEffect(playVariant, st, lastQuestionIdRef) IN
                 /\ lastQuestionIdRef' = e.lastQuestionIdRef
                 /\ timerRef' = e.timerRef
            ELSE UNCHANGED << lastQuestionIdRef, timerRef >>
  /\ UNCHANGED << playVariant, wsVars, fetchVars, sessionVars, dispatchVars,
                  hostVars, apiVars >>

\* The interval fires, a second after the last time.
IntervalTick ==
  /\ timerRef
  /\ playState' = CountDown(playState)
  /\ timerRef' = (playState.timeRemaining > 1)
  /\ UNCHANGED << playVariant, lastQuestionIdRef, playHandled, wsVars,
                  fetchVars, sessionVars, dispatchVars, hostVars, apiVars >>

\* The player picks the answer with the given index: handleAnswer.  The
\* page's hook is not connected here, so send() queues the message.
Answer(index) ==
  /\ playState.selectedAnswer = {}
  /\ playState.currentQuestion # {}
  /\ playState' = [playState EXCEPT !.selectedAnswer = { index }]
  /\ LET q == CHOOSE q \in playState.currentQuestion : TRUE IN
       Commit(HookSend(HookState,
                [type |-> "answer", question_id |-> q.question_id,
                 answer_index |-> index,
                 time_ms |-> (q.time_limit - playState.timeRemaining) * 1000]))
  /\ UNCHANGED << options, mounted, renders, closeMode, sends, inbound >>
  /\ UNCHANGED << playVariant, lastQuestionIdRef, timerRef, playHandled,
                  fetchVars, sessionVars, dispatchVars, hostVars, apiVars >>

InitPlay ==
  /\ WsIdle /\ FetchIdle /\ SessionIdle /\ DispatchIdle
  /\ HostIdle /\ ApiIdle
  /\ playVariant \in PlayVariants
  /\ playState = InitialGameState
  /\ lastQuestionIdRef = Null
  /\ timerRef = FALSE
  /\ playHandled = 0

NextPlay ==
  \/ \E msg \in PlayMessages : PlayMessage(msg)
  \/ IntervalTick
  \/ \E index \in {0, 1} : Answer(index)

SpecPlay == InitPlay /\ [][NextPlay]_vars

Next ==
  \/ \E p \in OptionSet : Rerender(p)
  \/ Unmount
  \/ \E t \in SocketIds : SocketOpen(t)
  \/ \E t \in SocketIds : SocketClose(t)
  \/ \E t \in SocketIds : DeliverClose(t)
  \/ \E t \in SocketIds : SocketError(t)
  \/ \E t \in SocketIds, text \in InboundTexts : SocketMessage(t, text)
  \/ \E k \in TimerIds : TimerFire(k)
  \/ Send

Spec == Init /\ [][Next]_vars

\* The connection and its lifecycle alone, for a component that stays mounted:
\* it sends nothing and the server sends no frames.
NextLifecycle ==
  \/ \E p \in OptionSet : Rerender(p)
  \/ \E t \in SocketIds : SocketOpen(t)
  \/ \E t \in SocketIds : SocketClose(t)
  \/ \E t \in SocketIds : DeliverClose(t)
  \/ \E k \in TimerIds : TimerFire(k)

SpecLifecycle == Init /\ [][NextLifecycle]_vars

\* Every connection attempt fails: no socket ever opens.
NextAllFail ==
  \/ \E p \in OptionSet : Rerender(p)
  \/ Unmount
  \/ \E t \in SocketIds : SocketClose(t)
  \/ \E t \in SocketIds : DeliverClose(t)
  \/ \E k \in TimerIds : TimerFire(k)

SpecAllFail == Init /\ [][NextAllFail]_vars

\* One connection for the life of the component: the options never change.
NextMessaging ==
  \/ Unmount
  \/ \E t \in SocketIds : SocketOpen(t)
  \/ \E t \in SocketIds : SocketClose(t)
  \/ \E t \in SocketIds : DeliverClose(t)
  \/ \E t \in SocketIds : SocketError(t)
  \/ \E t \in SocketIds, text \in InboundTexts : SocketMessage(t, text)
  \/ \E k \in TimerIds : TimerFire(k)
  \/ Send

SpecMessaging == Init /\ [][NextMessaging]_vars

\* The same for the hook of packages/shared, which differs in onmessage.
NextSharedMessaging ==
  \/ Unmount
  \/ \E t \in SocketIds : SocketOpen(t)
  \/ \E t \in SocketIds : SocketClose(t)
  \/ \E t \in SocketIds : DeliverClose(t)
  \/ \E t \in SocketIds : SocketError(t)
  \/ \E t \in SocketIds, text \in InboundTexts : SocketMessageShared(t, text)
  \/ \E k \in TimerIds : TimerFire(k)
  \/ Send

SpecSharedMessaging == Init /\ [][NextSharedMessaging]_vars

\* A connection that is never torn down: the component stays mounted and its
\* options never change.
NextLive ==
  \/ \E t \in SocketIds : SocketOpen(t)
  \/ \E t \in SocketIds : SocketClose(t)
  \/ \E k \in TimerIds : TimerFire(k)
  \/ Send

\* A connecting transport ends: it is established or it fails.
Resolve ==
  \E t \in SocketIds :
    sockets[t].readyState = "CONNECTING" /\ (SocketOpen(t) \/ SocketClose(t))

\* A reconnect timer is pending; a socket is connecting.
TimerPending == TimerIds # {}
Connecting == \E t \in SocketIds : sockets[t].readyState = "CONNECTING"

\* Weak fairness of the timers and of the connecting transports, with their
\* enabling conditions written out: the event loop runs every timer that is
\* due, and every connection attempt of the browser ends with an open or a
\* close event.
SpecLive ==
  /\ Init
  /\ [][NextLive]_vars
  /\ ([]<>(~TimerPending) \/ []<><<\E k \in TimerIds : TimerFire(k)>>_vars)
  /\ ([]<>(~Connecting) \/ []<><<Resolve>>_vars)

\* ------------------------------------------------------------------- typing
TypeOK ==
  /\ options \in OptionSet
  /\ wsRef \in {0} \cup SocketIds
  /\ reconnectTimer \in {0, StaleTimer} \cup TimerIds
  /\ reconnectAttempts \in 0..MAX_RECONNECT_ATTEMPTS
  /\ connectionStatus \in {"connecting", "connected", "reconnecting", "disconnected"}
  /\ Cardinality(SocketIds) + Cardinality(TimerIds) <= EffectRun

\* ============================================================== properties
\* A socket or timer whose closure belongs to an effect run that has been
\* cleaned up (a re-render replaced it, or the component unmounted).
TornDownRun(g) == ~mounted \/ g # EffectRun

\* ----------------------------------------------------------------------- C1
\* C1: in every reachable state at most one socket created by the hook is
\* live (CONNECTING or OPEN).
C1_AtMostOneLiveTransport == Cardinality(LiveSockets) <= 1

\* ----------------------------------------------------------------------- C2
\* C2: after a teardown no reconnect timer of the torn-down connection is
\* pending and no socket made by the torn-down connection's connect is live.
C2_NothingSurvivesTeardown ==
  /\ \A k \in TimerIds : ~TornDownRun(timers[k].gen)
  /\ \A t \in SocketIds : Live(t) => ~TornDownRun(sockets[t].gen)

\* ----------------------------------------------------------------------- C3
\* C3: a close, error or message event of a socket the effect cleanup closed
\* changes none of isConnected, connectionStatus, wsRef, the attempt counter,
\* and calls none of onMessage, onError, onReconnectExhausted.
TornDownEvent ==
  \E t \in SocketIds :
    /\ sockets[t].tornDown
    /\ \/ DeliverClose(t)
       \/ SocketError(t)
       \/ \E text \in InboundTexts : SocketMessage(t, text)

C3_TornDownEventsUnobserved ==
  [][TornDownEvent =>
       UNCHANGED << isConnected, connectionStatus, wsRef, reconnectAttempts,
                    onMessageCalls, onErrorCalls, onExhaustedCalls >>]_vars

\* ----------------------------------------------------------------------- C4
\* The state after the close that follows the last reconnect attempt.
Exhausted ==
  /\ reconnectAttempts = MAX_RECONNECT_ATTEMPTS
  /\ SocketIds = {}
  /\ TimerIds = {}
  /\ wsRef = 0
  /\ connectionStatus = "disconnected"

\* C4 as claimed (no socket ever opens in SpecAllFail): onReconnectExhausted
\* is called at most once over the whole life of the hook instance, and once
\* it was called the connection stays in the exhausted state.
C4_ExhaustedOncePerHook ==
  /\ onExhaustedCalls <= 1
  /\ onExhaustedCalls = 1 => Exhausted

\* C4 as amended: the same, for as long as the options the connection was
\* created with have not changed (no re-render replaced the connection); and
\* a mounted connection that used up its attempts has notified the caller.
C4_ExhaustedOncePerConnection ==
  renders = 0 =>
    /\ onExhaustedCalls <= 1
    /\ onExhaustedCalls = 1 => Exhausted
    /\ (mounted /\ reconnectAttempts = MAX_RECONNECT_ATTEMPTS
          /\ SocketIds = {} /\ TimerIds = {})
         => (onExhaustedCalls = 1 /\ connectionStatus = "disconnected")

C4_Witness ==
  renders = 0 /\ mounted /\ onExhaustedCalls = 1 /\ Exhausted

\* ----------------------------------------------------------------------- C5
ExpectedDelays ==
  << 1000, 2000, 4000, 8000, 15000, 15000, 15000, 15000, 15000, 15000 >>

\* C5: the delays scheduled since the last open are the first
\* reconnectAttempts entries of 1000, 2000, 4000, 8000, 15000 (x6): the close
\* at counter n schedules min(1000 * 2^n, 15000) and adds one to the counter.
C5_BackoffSequence ==
  /\ Len(delayLog) = reconnectAttempts
  /\ reconnectAttempts <= Len(ExpectedDelays)
  /\ \A i \in 1..Len(delayLog) : delayLog[i] = ExpectedDelays[i]
  /\ \A k \in TimerIds :
       \E i \in 1..Len(ExpectedDelays) : timers[k].delay = ExpectedDelays[i]

C5_Witness == delayLog = ExpectedDelays

\* ----------------------------------------------------------- C6, C7 helpers
\* The init frame the protocol asks for: type and role, the host's token when
\* one is set, the player's id (and token, when one is given) when an id is set.
ExpectedInit(p) ==
  { <<"type", "init">>, <<"role", p.role>> }
  \cup (IF p.role = "host" /\ p.token \notin {Undef, ""}
          THEN { <<"token", p.token>> } ELSE {})
  \cup (IF p.role = "player" /\ p.playerId \notin {Undef, ""}
          THEN { <<"player_id", p.playerId>> }
               \cup (IF p.playerToken # Undef
                       THEN { <<"player_token", p.playerToken>> } ELSE {})
          ELSE {})

\* The frame of the n-th send() call.
ExpectedFrame(n) ==
  { <<"type", "submit_answer">>, <<"question_id", OutboundIds[n]>> }

IsPrefix(a, b) == Len(a) <= Len(b) /\ \A i \in 1..Len(a) : a[i] = b[i]

\* The step opens socket t.
Opens(t) ==
  /\ sockets[t].readyState = "CONNECTING"
  /\ t \in DOMAIN sockets'
  /\ sockets'[t].readyState = "OPEN"

\* The step is a call of send().
SendStep == sends' = sends + 1

\* ----------------------------------------------------------------------- C6
\* C6: a send() made while no socket is open appends its data to the queue;
\* the queue keeps its content and order until a socket opens; the open
\* writes init and then the queue, in order, to the socket that opened and
\* empties the queue; and no send() is ever written twice, nor written
\* while it is still queued.
C6_QueuedDeliveredOnceInOrder ==
  [][ /\ (SendStep /\ OpenSockets = {})
         => messageQueue' = Append(messageQueue, OutboundData(sends + 1))
      /\ (~ \E t \in SocketIds : Opens(t)) => IsPrefix(messageQueue, messageQueue')
      /\ \A t \in SocketIds : Opens(t) =>
           /\ sockets'[t].written =
                << ExpectedInit(sockets[t].p) >>
                \o [i \in 1..Len(messageQueue) |-> Stringify(messageQueue[i])]
           /\ messageQueue' = <<>>
      /\ \A n \in 1..MaxSends :
           /\ writeCount'[n] <= 1
           /\ (\E i \in 1..Len(messageQueue') : messageQueue'[i] = OutboundData(n))
                => writeCount'[n] = 0
    ]_vars

\* Two queued messages were flushed in order behind init, the socket closed,
\* and a later socket opened and got init alone.
C6_Witness ==
  /\ \A n \in 1..2 : writeCount[n] = 1
  /\ messageQueue = <<>>
  /\ reconnectAttempts = 0
  /\ \E t \in OpenSockets : Len(sockets[t].written) = 1
  /\ renders = 0

\* ----------------------------------------------------------------------- C7
\* C7: nothing is written to a socket before it opens, and the first frame
\* written to a socket is the init frame of the options its connect was
\* created with; no later frame on that socket is an init frame.
C7_InitFirst ==
  \A t \in SocketIds :
    LET w == sockets[t].written IN
    /\ sockets[t].readyState = "CONNECTING" => w = <<>>
    /\ sockets[t].readyState = "OPEN" => w # <<>>
    /\ w # <<>> =>
         /\ w[1] = ExpectedInit(sockets[t].p)
         /\ \A i \in 2..Len(w) : <<"type", "init">> \notin w[i]

\* An open player socket that got its credentials first, then more frames.
C7_Witness ==
  \E t \in OpenSockets :
    /\ sockets[t].written[1] =
         { <<"type", "init">>, <<"role", "player">>,
           <<"player_id", "p1">>, <<"player_token", "t1">> }
    /\ Len(sockets[t].written) >= 3

\* ----------------------------------------------------------------------- C8
\* C8: the connection started by a re-render with changed options starts with
\* an empty outbound queue.
C8_FreshQueueAfterChange ==
  [][renders' # renders => messageQueue' = <<>>]_vars

\* ----------------------------------------------------------------------- C9
\* The open sockets made by the connect of the current effect run.
CurrentOpenSockets ==
  { t \in OpenSockets : ~TornDownRun(sockets[t].gen) }

\* C9: send() writes its data to the open socket of the current connection
\* and leaves the queue alone when there is one, and appends the data to the
\* queue, writing nothing, when there is none.
C9_SendWritesOrQueues ==
  [][SendStep =>
       IF CurrentOpenSockets # {}
         THEN /\ messageQueue' = messageQueue
              /\ \E t \in CurrentOpenSockets :
                   sockets' = [sockets EXCEPT ![t].written =
                                 Append(@, ExpectedFrame(sends + 1))]
         ELSE /\ messageQueue' = Append(messageQueue, OutboundData(sends + 1))
              /\ sockets' = sockets
    ]_vars

\* ---------------------------------------------------------------------- C10
PingText == "{\"type\":\"ping\"}"

\* C10: the delivery of a ping frame to socket t appends one pong frame to
\* what was written to t and changes nothing else: no callback runs, and the
\* refs and state of the hook, the queue, the timers and every other socket
\* stay as they were.
C10_PingPong ==
  [][\A t \in SocketIds : SocketMessage(t, PingText) =>
       /\ sockets' = [sockets EXCEPT ![t].written =
                        Append(@, { <<"type", "pong">> })]
       /\ UNCHANGED << wsRef, isConnected, connectionStatus, reconnectAttempts,
                       reconnectTimer, messageQueue, timers, delayLog,
                       onMessageCalls, onErrorCalls, onExhaustedCalls >>
    ]_vars

\* A pong is the last frame written to an open socket, and onMessage was
\* never called.
C10_Witness ==
  /\ onMessageCalls = <<>>
  /\ inbound >= 1
  /\ \E t \in OpenSockets :
       sockets[t].written[Len(sockets[t].written)] = { <<"type", "pong">> }

\* ---------------------------------------------------------------------- C11
\* Frames that are not a JSON object with a string type.
MalformedTexts == { "not json", "[1,2]", "{\"x\":1}", "null" }

\* C11: the delivery of a malformed frame to a socket calls no handler,
\* writes nothing to any socket and leaves the refs and state of the hook,
\* the queue and the timers as they were.
C11_MalformedIgnored ==
  [][\A t \in SocketIds, text \in MalformedTexts :
       (SocketMessage(t, text) \/ SocketMessageShared(t, text)) =>
         UNCHANGED << wsRef, isConnected, connectionStatus, reconnectAttempts,
                      reconnectTimer, messageQueue, sockets, timers, delayLog,
                      writeCount, onMessageCalls, onErrorCalls,
                      onExhaustedCalls >>
    ]_vars

\* ---------------------------------------------------------------------- C12
\* The options let connect() run.
Connectable == options.enabled /\ Truthy(options.sessionCode)

\* C12: for a connection that is not torn down, a pending reconnect (a close
\* at attempt counter < 10 scheduled it) leads to a new connection attempt,
\* and the status 'connecting' or 'reconnecting' leads to 'connected' or to
\* the exhausted 'disconnected' state.
C12_EventuallyConnectedOrExhausted ==
  /\ (Connectable /\ TimerIds # {}) ~> (LiveSockets # {})
  /\ (Connectable /\ connectionStatus \in {"connecting", "reconnecting"})
       ~> (connectionStatus = "connected" \/ Exhausted)

\* The tenth reconnect attempt is under way.
C12_Witness ==
  /\ Connectable
  /\ connectionStatus = "reconnecting"
  /\ reconnectAttempts = MAX_RECONNECT_ATTEMPTS
  /\ \E t \in SocketIds : sockets[t].readyState = "CONNECTING"

\* ---------------------------------------------------------------------- C13
\* The requests outstanding for cache key k.
Outstanding(k) == { p \in PromiseIds : promises[p].key = k }

\* The cache keys in use.
CacheKeys == { fetchOptions[c].cacheKey : c \in Consumers } \ { Undef, "" }

\* C13: for every cache key at most one request is outstanding, and it is the
\* one registered in inFlightRequests; a step that invokes fetchFn for a
\* consumer with key k starts from a state with no request outstanding for k.
C13_OneInFlightPerKey ==
  [][ /\ \A k \in CacheKeys :
           /\ Cardinality(Outstanding(k)) <= 1
           /\ \A p \in Outstanding(k) :
                k \in DOMAIN inFlightRequests /\ inFlightRequests[k] = p
      /\ \A p \in DOMAIN promises' \ DOMAIN promises :
           promises'[p].key \in CacheKeys => Outstanding(promises'[p].key) = {}
    ]_vars

\* A refetch() found the request of the other consumer in flight and joined
\* it: two calls, one invocation.
C13_Witness ==
  /\ fetchCalls = 1
  /\ refetchCalls = 2
  /\ \E p \in PromiseIds :
       /\ promises[p].key = "sessions"
       /\ Len(promises[p].waiters) = 2
       /\ promises[p].waiters[1].c # promises[p].waiters[2].c

\* ---------------------------------------------------------------------- C14
\* The consumers whose refetch() calls await promise p.
Awaiting(p) == { promises[p].waiters[i].c : i \in 1..Len(promises[p].waiters) }

\* C14: when a request settles, every caller awaiting it, the one that
\* started it and the ones that joined it, ends with loading false and with
\* the request's result as its data (fulfilled) or the failure's message as
\* its error (rejected); the request is settled once, it is not outstanding
\* afterwards.
C14_JoinerSharesOutcome ==
  [][\A p \in PromiseIds, outcome \in Outcomes :
       Settle(p, outcome) =>
         /\ \A c \in Awaiting(p) :
              /\ consumer'[c].loading = FALSE
              /\ outcome = "fulfilled" =>
                   /\ consumer'[c].data = promises[p].result
                   /\ consumer'[c].error = consumer[c].error
              /\ outcome # "fulfilled" =>
                   /\ consumer'[c].error = ErrorMessage(outcome)
                   /\ consumer'[c].data = consumer[c].data
         /\ p \notin DOMAIN promises'
    ]_vars

\* One invocation gave both consumers its result, and not through the result
\* cache: the second consumer joined the request of the first.
C14_Witness ==
  /\ fetchCalls = 1
  /\ refetchCalls = 2
  /\ resultCache = Empty
  /\ promises = Empty
  /\ \A c \in Consumers : consumer[c].data = 1 /\ ~consumer[c].loading

\* ---------------------------------------------------------------------- C15
\* The step is a call of refetch() by consumer c.
RefetchStep(c) ==
  \/ ManualRefetch(c)
  \/ PollTick(c)
  \/ (fetchOptions[c].immediate /\ Activate(c))

\* The result cache holds an entry for the key of c that is younger than the
\* TTL of c.
Fresh(c) ==
  /\ fetchOptions[c].cacheKey \in DOMAIN resultCache
  /\ now - resultCache[fetchOptions[c].cacheKey].timestamp
       < fetchOptions[c].cacheTTL

\* The step served consumer c from the result cache and invoked nothing.
Served(c) ==
  /\ fetchCalls' = fetchCalls
  /\ promises' = promises
  /\ inFlightRequests' = inFlightRequests
  /\ consumer'[c].data = resultCache[fetchOptions[c].cacheKey].data
  /\ consumer'[c].loading = FALSE

\* The step invoked fetchFn for consumer c.
Invoked(c) ==
  /\ fetchCalls' = fetchCalls + 1
  /\ \E p \in DOMAIN promises' \ DOMAIN promises :
       /\ promises'[p].key = fetchOptions[c].cacheKey
       /\ promises'[p].waiters = << [c |-> c, kind |-> "start"] >>

\* C15: a refetch() of a consumer with a cache key and a TTL > 0 is served
\* from the cache, invoking nothing, exactly when the cache holds an entry
\* for the key with now - timestamp < TTL; when there is no such entry and no
\* request in flight for the key, it invokes fetchFn.
C15_ServedWithinTTL ==
  [][\A c \in Consumers :
       (RefetchStep(c) /\ Truthy(fetchOptions[c].cacheKey)
          /\ fetchOptions[c].cacheTTL > 0) =>
         /\ Fresh(c) <=> Served(c)
         /\ (~Fresh(c) /\ fetchOptions[c].cacheKey \notin DOMAIN inFlightRequests)
              => Invoked(c)
         /\ resultCache' = resultCache
    ]_vars

\* The entry stored at time 0 has reached the TTL of 2 and a refetch() has
\* invoked fetchFn a second time.
C15_Witness ==
  /\ now = 2
  /\ fetchCalls = 2
  /\ "sessions" \in DOMAIN resultCache
  /\ resultCache["sessions"].timestamp = 0
  /\ \E p \in PromiseIds :
       /\ promises[p].result = 2
       /\ fetchOptions[promises[p].waiters[1].c] = FetchOptions("sessions", 2, TRUE, 0)
  /\ \A c \in Consumers : fetchOptions[c].cacheTTL = 2

\* ---------------------------------------------------------------------- C16
\* A refetch() of consumer c made now would invoke fetchFn.
WouldInvoke(c) == ~CacheHit(FetchState, c, now) /\ ~Joins(FetchState, c)

\* What a rejected request leaves behind: the message as the error of every
\* awaiting caller, their data as it was, nothing new in the result cache and
\* no in-flight registration for the key.
FailureAbsorbed(p, outcome) ==
  /\ \A c \in Awaiting(p) :
       /\ consumer'[c].error = ErrorMessage(outcome)
       /\ consumer'[c].data = consumer[c].data
       /\ consumer'[c].loading = FALSE
  /\ resultCache' = resultCache
  /\ promises[p].key \notin DOMAIN inFlightRequests'

\* C16 as claimed: after the rejection the next refetch() with the same key,
\* whichever consumer makes it, invokes fetchFn.
C16_FailureThenAnyRetryInvokes ==
  [][\A p \in PromiseIds, outcome \in Outcomes \ {"fulfilled"} :
       Settle(p, outcome) =>
         /\ FailureAbsorbed(p, outcome)
         /\ \A c \in Consumers :
              fetchOptions[c].cacheKey = promises[p].key => WouldInvoke(c)'
    ]_vars

\* C16 as amended: after the rejection the next refetch() of a caller that
\* awaited the request invokes fetchFn.
C16_FailureThenOwnRetryInvokes ==
  [][\A p \in PromiseIds, outcome \in Outcomes \ {"fulfilled"} :
       Settle(p, outcome) =>
         /\ FailureAbsorbed(p, outcome)
         /\ \A c \in Awaiting(p) : WouldInvoke(c)'
    ]_vars

\* A consumer whose second request for "sessions" was rejected: it shows the
\* message and still has the data of the first request, and nothing is
\* registered in flight.
C16_Witness ==
  /\ fetchCalls = 2
  /\ promises = Empty
  /\ inFlightRequests = Empty
  /\ \E c \in Consumers :
       /\ fetchOptions[c].cacheKey = "sessions"
       /\ consumer[c].data = 1
       /\ consumer[c].error = "Failed to fetch"
       /\ ~consumer[c].loading
       /\ WouldInvoke(c)

\* ---------------------------------------------------------------------- C17
\* C17: the settlement of a request gives nothing to the state setters of a
\* consumer that has unmounted: its data, loading and error stay as they were.
C17_NoUpdateAfterTeardown ==
  [][\A p \in PromiseIds, outcome \in Outcomes :
       Settle(p, outcome) =>
         \A c \in Awaiting(p) :
           consumer[c].phase = "unmounted" => consumer'[c] = consumer[c]
    ]_vars

\* ---------------------------------------------------------------------- C18
\* The bearer tokens of the sessions.
Tokens == { session.playerToken : session \in SessionSet }

\* C18: no value stored under any sessionStorage key contains a bearer token.
C18_TokenNeverPersisted ==
  \A key \in DOMAIN sessionStorage :
    \A pair \in sessionStorage[key] : pair[2] \notin Tokens

\* ---------------------------------------------------------------------- C19
\* The session in memory was stored or refreshed more than 4 hours ago.
Expired ==
  /\ memorySession # {}
  /\ \E t \in sessionTouchedAt : now - t > SESSION_EXPIRY_MS

C20_ExactHandlerOrNothing ==
  \A i \in DOMAIN dispatchLog :
    LET e == dispatchLog[i] IN
    IF e.msg.type \in DOMAIN handlers
      THEN /\ e.called = << [handler |-> handlers[e.msg.type], arg |-> e.msg] >>
           /\ e.returned = "true"
      ELSE /\ e.called = <<>>
           /\ e.returned = "false"

\* ---------------------------------------------------------------------- C23
\* The open socket t, not torn down, closes while reconnecting is enabled.
ClosesAfterOpen(t) ==
  /\ sockets[t].readyState = "OPEN"
  /\ ~sockets[t].tornDown
  /\ sockets[t].p.enabled
  /\ SocketClose(t)

\* C23: the attempt counter is 0 right after every successful open, and the
\* first close after a successful open schedules a reconnect with delay
\* 1000 ms as attempt 1 of 10.
C23_CounterResetOnOpen ==
  [][\A t \in SocketIds :
       /\ SocketOpen(t) => reconnectAttempts' = 0
       /\ ClosesAfterOpen(t) =>
            /\ reconnectAttempts' = 1
            /\ reconnectTimer' \in DOMAIN timers'
            /\ timers'[reconnectTimer'].delay = INITIAL_RECONNECT_DELAY_MS]_vars

\* ---------------------------------------------------------------------- C24
\* What an error event must leave alone.
errorFrame ==
  << reconnectAttempts, connectionStatus, isConnected, messageQueue, wsRef,
     sockets, timers, reconnectTimer, onMessageCalls, onExhaustedCalls >>

\* C24: an error event calls onError once and changes nothing else: not the
\* attempt counter, connectionStatus, isConnected, the queue or the active
\* transport, and it schedules no reconnect.  A reconnect timer comes to
\* exist only in a step in which a socket had its close event, one per step.
C24_ErrorOnlyNotifies ==
  [][/\ \A t \in SocketIds :
          SocketError(t) =>
            /\ onErrorCalls' = onErrorCalls + 1
            /\ UNCHANGED errorFrame
     /\ DOMAIN timers' \ DOMAIN timers # {} =>
          /\ DOMAIN sockets \ DOMAIN sockets' # {}
          /\ Cardinality(DOMAIN timers' \ DOMAIN timers) = 1]_vars

\* An error event was delivered and the connection is up: connected, counter
\* 0, no reconnect pending.
C24_Witness ==
  /\ onErrorCalls = 1
  /\ isConnected
  /\ connectionStatus = "connected"
  /\ wsRef \in OpenSockets
  /\ reconnectAttempts = 0
  /\ timers = Empty

\* ---------------------------------------------------------------------- C25
\* C25: the connection started by a change of sessionCode, role or
\* credentials starts with attempt counter 0 and status 'connecting',
\* whatever the previous connection had used.
C25_FreshAfterChange ==
  [][\A p \in OptionSet :
       (Rerender(p) /\ p.enabled /\ Truthy(p.sessionCode)) =>
          /\ reconnectAttempts' = 0
          /\ connectionStatus' = "connecting"]_vars

\* ---------------------------------------------------------------------- C26
\* C26: whenever hasValidSession() would return false, getPlayerToken()
\* returns null.
C26_NoTokenWithoutValidSession ==
  ~hasValidSession(SessionState, now) => getPlayerToken(SessionState) = {}

\* ---------------------------------------------------------------------- C27
\* getSecureSession() called now would return null.
NoValidSession == ~hasValidSession(SessionState, now)

\* C27: once the expiry of the stored session has passed, the session stays
\* unavailable through every call of refreshSessionExpiry and
\* getSecureSession and as time goes on: only storeSecureSession makes a
\* session available again.
C27_ExpiredStaysExpired ==
  [][(NoValidSession /\ (RefreshExpiry \/ GetSecure \/ HourPasses))
       => NoValidSession']_vars

\* ---------------------------------------------------------------------- C28
\* C28: a refetch() that completes with a result, served from the cache or
\* delivered by the request it started or joined, leaves the error of its
\* consumer null and its loading false.
C28_SuccessClearsError ==
  [][/\ \A c \in Consumers :
          (RefetchStep(c) /\ CacheHit(FetchState, c, now)) =>
            /\ consumer'[c].error = Null
            /\ consumer'[c].loading = FALSE
     /\ \A p \in PromiseIds :
          Settle(p, "fulfilled") =>
            \A c \in Awaiting(p) :
              /\ consumer'[c].error = Null
              /\ consumer'[c].loading = FALSE
    ]_vars

\* ---------------------------------------------------------------------- C29
\* C29: a request that was in flight for a key when the cache was cleared
\* does not store its result in the result cache when it settles, and no
\* refetch() made after the clearing joins it.
C29_InvalidationCutsOffInFlight ==
  [][\A p \in PromiseIds :
       promises[p].invalidated =>
         /\ Settle(p, "fulfilled") =>
              ~ /\ promises[p].key \in DOMAIN resultCache'
                /\ resultCache'[promises[p].key].data = promises[p].result
         /\ p \in DOMAIN promises' =>
              promises'[p].waiters = promises[p].waiters
    ]_vars

\* ---------------------------------------------------------------------- C30
\* The entries of the list ps for player id.
EntriesOf(ps, id) == { i \in DOMAIN ps : ps[i].player_id = id }

\* C30: after a player_connected message for p the list has exactly one
\* entry for p and it is connected; player_disconnected removes no entry,
\* adds none and leaves every player_id where it was.
C30_ConnectedAfterReconnect ==
  [][\A msg \in HostMessages :
       HostMessage(msg) =>
         /\ msg.type = "player_connected" =>
              /\ Cardinality(EntriesOf(players', msg.player_id)) = 1
              /\ \A i \in EntriesOf(players', msg.player_id) :
                   players'[i].connected
         /\ msg.type = "player_disconnected" =>
              /\ Len(players') = Len(players)
              /\ \A i \in DOMAIN players :
                   players'[i].player_id = players[i].player_id
    ]_vars

\* ---------------------------------------------------------------------- C22
\* The message the claim asks for: the detail of a JSON body that has one,
\* else the body text if there is any, else "HTTP {status}".
PreferredMessage(resp) ==
  IF Truthy(ResponseJson(resp.body).detail) THEN ResponseJson(resp.body).detail
  ELSE IF resp.body # "" THEN resp.body
  ELSE "HTTP " \o ToString(resp.status)

\* C22: every non-2xx response rejected with the message of that preference
\* order.
C22_ErrorMessagePreference ==
  \A i \in DOMAIN apiLog :
    apiLog[i].message = PreferredMessage(apiLog[i].response)

\* ---------------------------------------------------------------------- C21
\* C21: from any phase a 'question' message sets phase to 'question',
\* currentQuestion to the message, selectedAnswer to null and timeRemaining
\* to the time limit, and leaves the countdown running; each tick of the
\* countdown takes 1 off timeRemaining.
C21_QuestionArmsCountdown ==
  [][/\ \A msg \in QuestionMessages :
          PlayMessage(msg) =>
            /\ playState'.phase = "question"
            /\ playState'.currentQuestion = { msg }
            /\ playState'.selectedAnswer = {}
            /\ playState'.timeRemaining = msg.time_limit
            /\ timerRef'
     /\ IntervalTick =>
          /\ playState.timeRemaining >= 1
          /\ playState'.timeRemaining = playState.timeRemaining - 1
    ]_vars

====
